---- MODULE Spec2Model ----
(***************************************************************************)
(* A model of the "minipack" container codec (src/src/minipack.ts), of the *)
(* text helpers it calls (src/src/text.ts) and of the one-shot worker task *)
(* runner (src/src/deflate.ts, createTask).                                *)
(*                                                                         *)
(* A Uint8Array is a record [buffer, byteOffset, byteLength]: a window on  *)
(* an ArrayBuffer (a sequence of bytes).  A JavaScript string is a         *)
(* sequence of UTF-16 code units.  Offsets are 0-based as in the source;   *)
(* sequences are 1-based, so byte o of a buffer is buffer[o + 1].          *)
(***************************************************************************)
EXTENDS Integers, Sequences, FiniteSets, TLC

\* src/src/minipack.ts:4-6
sizeHash == 32
sizeName == 1
sizeBody == 4

\* Bounds of the model.
MaxFiles == 2
NumCalls == 2
MaxTasks == 3
UintCap == 1073741824

VARIABLES
    pc,       \* where the encode-then-decode scenario stands
    files,    \* minipackEncode: the argument, a sequence of [name, body]
    archive,  \* minipackEncode: the output Uint8Array (offset 0, own buffer)
    i,        \* minipackEncode: the write cursor
    n,        \* minipackEncode: number of entries of the for-of loop done
    mode,     \* what was done to the archive before it is handed to decode
    input,    \* minipackDecode: the argument, a Uint8Array
    di,       \* minipackDecode: the read cursor (its local i)
    out,      \* minipackDecode: the local list files, [name, body] pairs
    hdrs,     \* the name_len / body_len each pushed record declared
    iters,    \* number of loop iterations minipackDecode has started
    err,      \* what minipackDecode threw, "none" if nothing
    call,     \* concurrent invocations: per call its kind, argument, position
    frame,    \* concurrent invocations: the locals of each activation
    workers,  \* createTask: the Worker of each TaskContext call
    promises  \* createTask: the promise of each TaskContext call

codecVars == <<pc, files, archive, i, n, mode, input, di, out, hdrs, iters, err>>
parVars == <<call, frame>>
taskVars == <<workers, promises>>
vars == <<pc, files, archive, i, n, mode, input, di, out, hdrs, iters, err,
          call, frame, workers, promises>>

-----------------------------------------------------------------------------
(* Bytes and typed arrays *)

Min(a, b) == IF a < b THEN a ELSE b

\* new Uint8Array(length): zero filled
Zeros(length) == [j \in 1..length |-> 0]

\* The bytes seen through a Uint8Array.
Bytes(view) ==
    SubSeq(view.buffer, view.byteOffset + 1, view.byteOffset + view.byteLength)

\* A Uint8Array owning a buffer of exactly these bytes.
Standalone(bytes) ==
    [buffer |-> bytes, byteOffset |-> 0, byteLength |-> Len(bytes)]

\* TypedArray.prototype.subarray(begin, end) for 0 <= begin: both ends are
\* clamped to the length of the view, the result shares the buffer.
subarray(view, begin, end) ==
    LET b == Min(begin, view.byteLength)
        e == Min(end, view.byteLength)
    IN  [buffer |-> view.buffer,
         byteOffset |-> view.byteOffset + b,
         byteLength |-> IF e > b THEN e - b ELSE 0]

\* TypedArray.prototype.set(source, offset) on a Uint8Array with offset 0:
\* RangeError when the source does not fit.
setFits(target, source, offset) == offset + Len(source) <= Len(target)
set(target, source, offset) ==
    SubSeq(target, 1, offset) \o source
        \o SubSeq(target, offset + Len(source) + 1, Len(target))

\* new DataView(buffer, byteOffset).getUint8(0) / getUint32(0) / setUint8 /
\* setUint32: the access is in range when the whole field lies in the BUFFER.
dataViewFits(buffer, byteOffset, size) == byteOffset + size <= Len(buffer)

getUint8(buffer, byteOffset) == buffer[byteOffset + 1]

\* getUint32(0), big-endian.  The result only ever moves the cursor, which is
\* compared with buffer lengths far below UintCap, so every value from
\* UintCap on is represented by UintCap (the integers of the checker are
\* narrower than a JavaScript number).
getUint32(buffer, byteOffset) ==
    IF buffer[byteOffset + 1] >= UintCap \div 16777216 THEN UintCap
    ELSE ((buffer[byteOffset + 1] * 256 + buffer[byteOffset + 2]) * 256
            + buffer[byteOffset + 3]) * 256 + buffer[byteOffset + 4]

\* setUint8 stores ToUint8(value): value modulo 2^8.
setUint8(buffer, byteOffset, value) ==
    [buffer EXCEPT ![byteOffset + 1] = value % 256]

setUint32LittleEndian(buffer, byteOffset, value) ==
    LET v == value
    IN  [buffer EXCEPT ![byteOffset + 4] = (v \div 16777216) % 256,
                       ![byteOffset + 3] = (v \div 65536) % 256,
                       ![byteOffset + 2] = (v \div 256) % 256,
                       ![byteOffset + 1] = v % 256]

\* setUint32 stores ToUint32(value), value modulo 2^32, big-endian (no
\* littleEndian argument): its four bytes, most significant first.
setUint32(buffer, byteOffset, value) ==
    LET v == value
    IN  [buffer EXCEPT ![byteOffset + 1] = (v \div 16777216) % 256,
                       ![byteOffset + 2] = (v \div 65536) % 256,
                       ![byteOffset + 3] = (v \div 256) % 256,
                       ![byteOffset + 4] = v % 256]

-----------------------------------------------------------------------------
(* src/src/text.ts *)

HexDigits == <<"0", "1", "2", "3", "4", "5", "6", "7",
               "8", "9", "A", "B", "C", "D", "E", "F">>

\* Number.prototype.toString(radix) followed by toUpperCase(), as digits
RECURSIVE toStringUpper(_, _)
toStringUpper(data, radix) ==
    IF data < radix THEN <<HexDigits[data + 1]>>
    ELSE Append(toStringUpper(data \div radix, radix), HexDigits[(data % radix) + 1])

\* String.prototype.padStart(digit, "0")
RECURSIVE padStart(_, _)
padStart(s, digit) == IF Len(s) >= digit THEN s ELSE padStart(<<"0">> \o s, digit)

pad0(data, digit, radix) == padStart(toStringUpper(data, radix), digit)

\* pad0(n, 2, 16) of every byte value n
HexOfByte == [b \in 0..255 |-> pad0(b, 2, 16)]

\* [...data].map(n => pad0(n, 2, 16)).join(""): character k of the string is
\* a character of the two of byte (k + 1) \div 2.
hexEncode(data) ==
    [k \in 1..(2 * Len(data)) |-> HexOfByte[data[(k + 1) \div 2]][2 - (k % 2)]]

IsHigh(u) == u >= 55296 /\ u <= 56319
IsLow(u) == u >= 56320 /\ u <= 57343

\* One code point as UTF-8.
Utf8Of(cp) ==
    IF cp < 128 THEN <<cp>>
    ELSE IF cp < 2048 THEN <<192 + (cp \div 64), 128 + (cp % 64)>>
    ELSE IF cp < 65536
         THEN <<224 + (cp \div 4096), 128 + ((cp \div 64) % 64), 128 + (cp % 64)>>
    ELSE <<240 + (cp \div 262144), 128 + ((cp \div 4096) % 64),
           128 + ((cp \div 64) % 64), 128 + (cp % 64)>>

\* The concatenation of the sequences ss[lo], ..., ss[hi].
RECURSIVE Concat(_, _, _)
Concat(ss, lo, hi) ==
    IF lo > hi THEN <<>>
    ELSE IF lo = hi THEN ss[lo]
    ELSE LET mid == (lo + hi) \div 2
         IN  Concat(ss, lo, mid) \o Concat(ss, mid + 1, hi)

\* The bytes code unit j of the string contributes: a high surrogate followed
\* by a low one is one code point, the low one then adds nothing; any other
\* surrogate is alone and becomes U+FFFD.
unitBytes(data, j) ==
    IF IsHigh(data[j]) /\ j < Len(data) /\ IsLow(data[j + 1])
    THEN Utf8Of(65536 + (data[j] - 55296) * 1024 + (data[j + 1] - 56320))
    ELSE IF IsLow(data[j]) /\ j > 1 /\ IsHigh(data[j - 1]) THEN <<>>
    ELSE IF IsHigh(data[j]) \/ IsLow(data[j]) THEN Utf8Of(65533)
    ELSE Utf8Of(data[j])

\* new TextEncoder().encode(data): the string is first made a scalar value
\* string, then each code point is encoded.
utfEncode(data) ==
    Concat([j \in 1..Len(data) |-> unitBytes(data, j)], 1, Len(data))

\* One code point as UTF-16 code units.
Utf16Of(cp) ==
    IF cp < 65536 THEN <<cp>>
    ELSE <<55296 + ((cp - 65536) \div 1024), 56320 + ((cp - 65536) % 1024)>>

\* Whether byte q of b exists and is a continuation byte within lo..hi.
IsContinuation(b, q, lo, hi) == q <= Len(b) /\ b[q] >= lo /\ b[q] <= hi

\* The number of continuation bytes the lead byte x asks for (0: no lead).
BytesNeeded(x) ==
    IF x >= 194 /\ x <= 223 THEN 1
    ELSE IF x >= 224 /\ x <= 239 THEN 2
    ELSE IF x >= 240 /\ x <= 244 THEN 3 ELSE 0

\* The number of continuation bytes the decoder accepts after the lead byte
\* at p: the first of them in a range that depends on the lead.
BytesSeen(b, p) ==
    LET x == b[p]
        lower == IF x = 224 THEN 160 ELSE IF x = 240 THEN 144 ELSE 128
        upper == IF x = 237 THEN 159 ELSE IF x = 244 THEN 143 ELSE 191
        ok1 == IsContinuation(b, p + 1, lower, upper)
        ok2 == ok1 /\ IsContinuation(b, p + 2, 128, 191)
        ok3 == ok2 /\ IsContinuation(b, p + 3, 128, 191)
    IN  IF BytesNeeded(x) >= 3 /\ ok3 THEN 3
        ELSE IF BytesNeeded(x) >= 2 /\ ok2 THEN 2
        ELSE IF BytesNeeded(x) >= 1 /\ ok1 THEN 1 ELSE 0

\* What the decoder emits when it meets byte p with no sequence open: the
\* byte itself (ASCII), the code point when all continuation bytes are there,
\* else U+FFFD for the lead and the continuation bytes accepted so far.
DecodedAt(b, p) ==
    LET x == b[p]
        needed == BytesNeeded(x)
        cp == IF needed = 1 THEN ((x % 32) * 64) + (b[p + 1] % 64)
              ELSE IF needed = 2
                   THEN ((((x % 16) * 64) + (b[p + 1] % 64)) * 64) + (b[p + 2] % 64)
              ELSE ((((((x % 8) * 64) + (b[p + 1] % 64)) * 64)
                       + (b[p + 2] % 64)) * 64) + (b[p + 3] % 64)
    IN  IF x < 128 THEN <<x>>
        ELSE IF needed = 0 THEN <<65533>>
        ELSE IF BytesSeen(b, p) = needed THEN Utf16Of(cp)
        ELSE <<65533>>

\* Byte p was accepted as a continuation byte of a lead byte at most three
\* places before it.  (A lead byte is never a continuation byte, so the
\* decoder meets every lead byte with no sequence open.)
IsConsumed(b, first, p) ==
    \E q \in (p - 3)..(p - 1) :
        q >= first /\ BytesNeeded(b[q]) > 0 /\ q + BytesSeen(b, q) >= p

\* The UTF-8 decoder of the Encoding standard, not fatal, from byte first on.
Utf8Decode(b, first) ==
    Concat([p \in 1..Len(b) |->
                IF p < first \/ IsConsumed(b, first, p) THEN <<>>
                ELSE DecodedAt(b, p)], 1, Len(b))

\* new TextDecoder().decode(data): utf-8, fatal false, ignoreBOM false, so
\* a leading byte order mark EF BB BF is dropped from the output.
utfDecode(data) ==
    LET bom == Len(data) >= 3 /\ data[1] = 239 /\ data[2] = 187 /\ data[3] = 191
    IN  Utf8Decode(data, IF bom THEN 4 ELSE 1)

-----------------------------------------------------------------------------
(* The digest collaborator, cryptoHash(false, data) of crypto.ts: 32 bytes, *)
(* a function of the bytes alone.  It is modelled free of collisions on     *)
(* data shorter than 32 bytes: the length, the data, zero padding.          *)

cryptoHash(is512, data) ==
    IF Len(data) < sizeHash
    THEN <<Len(data)>> \o data \o Zeros(sizeHash - 1 - Len(data))
    ELSE <<sizeHash + (Len(data) % 200)>> \o SubSeq(data, 1, sizeHash - 1)

-----------------------------------------------------------------------------
(* src/src/minipack.ts *)

\* minipackEncode, line 20: the size of the output buffer.
RECURSIVE archiveSize(_)
archiveSize(fs) ==
    IF fs = <<>> THEN 0
    ELSE sizeHash + sizeName + sizeBody + Len(utfEncode(Head(fs).name))
            + Len(Head(fs).body) + archiveSize(Tail(fs))

\* minipackEncode, lines 24-42: one pass of the for-of loop over the entry f
\* with the buffer a and the cursor c.  thrown tells a RangeError of set or
\* of the DataView.
encodeEntry(a, c, f) ==
    LET name == utfEncode(f.name)
        body == f.body
        hash == cryptoHash(FALSE, body)
        c1 == c + sizeHash
        c2 == c1 + sizeName
        c3 == c2 + sizeBody
        c4 == c3 + Len(name)
        c5 == c4 + Len(body)
    IN  IF ~setFits(a, hash, c) \/ ~dataViewFits(a, c1, 1)
            \/ ~dataViewFits(a, c2, 4) \/ ~setFits(a, name, c3)
            \/ ~setFits(a, body, c4)
        THEN [thrown |-> "RangeError", archive |-> a, i |-> c]
        ELSE [thrown |-> "none",
              archive |-> set(set(setUint32(setUint8(set(a, hash, c),
                              c1, Len(name)), c2, Len(body)), name, c3), body, c4),
              i |-> c5]

\* minipackEncode run to its end: what it throws, or the buffer it returns.
RECURSIVE encodeFrom(_, _, _)
encodeFrom(a, c, fs) ==
    IF fs = <<>> THEN [thrown |-> "none", value |-> a]
    ELSE LET r == encodeEntry(a, c, Head(fs))
         IN  IF r.thrown # "none" THEN [thrown |-> r.thrown, value |-> <<>>]
             ELSE encodeFrom(r.archive, r.i, Tail(fs))

minipackEncode(fs) == encodeFrom(Zeros(archiveSize(fs)), 0, fs)

\* minipackDecode, line 69: the comparison of the two hex strings.
hashMatchesFirstByte(hash, digest) ==
    SubSeq(hexEncode(hash), 1, 2) = SubSeq(hexEncode(digest), 1, 2)

hashMatches(hash, digest) == hexEncode(hash) = hexEncode(digest)

\* minipackDecode, lines 57-63: the header of the record at cursor c.  The
\* digest is cut from the VIEW (clamped), name_len and body_len are read
\* through a DataView on archive.buffer at offset c, counted from the start
\* of the BUFFER.
readHeaderNameNotCounted(a, c) ==
    LET c1 == c + sizeHash
        c2 == c1
        c3 == c2 + sizeBody
    IN  IF ~dataViewFits(a.buffer, c1, 1) \/ ~dataViewFits(a.buffer, c2, 4)
        THEN [thrown |-> "RangeError"]
        ELSE [thrown |-> "none", hash |-> subarray(a, c, c1),
              ns |-> getUint8(a.buffer, c1), bs |-> getUint32(a.buffer, c2),
              i |-> c3]

readHeader(a, c) ==
    LET c1 == c + sizeHash
        c2 == c1 + sizeName
        c3 == c2 + sizeBody
    IN  IF ~dataViewFits(a.buffer, c1, 1) \/ ~dataViewFits(a.buffer, c2, 4)
        THEN [thrown |-> "RangeError"]
        ELSE [thrown |-> "none", hash |-> subarray(a, c, c1),
              ns |-> getUint8(a.buffer, c1), bs |-> getUint32(a.buffer, c2),
              i |-> c3]

\* minipackDecode, lines 57-67: the record at cursor c is read, up to the
\* await of the digest of its body.
readRecord(a, c) ==
    LET h == readHeader(a, c)
    IN  IF h.thrown # "none" THEN [thrown |-> "RangeError"]
        ELSE LET c4 == h.i + h.ns
                 c5 == c4 + h.bs
             IN  [thrown |-> "none", i |-> c5, ns |-> h.ns, bs |-> h.bs,
                  hash |-> Bytes(h.hash),
                  name |-> utfDecode(Bytes(subarray(a, h.i, c4))),
                  body |-> Bytes(subarray(a, c4, c5))]

\* minipackDecode, lines 69-73: the digest has arrived; throw, or the pair
\* that is pushed.
verifyRecord(r) ==
    IF ~hashMatches(r.hash, cryptoHash(FALSE, r.body))
    THEN [thrown |-> "Error"]
    ELSE [thrown |-> "none", i |-> r.i, ns |-> r.ns, bs |-> r.bs,
          file |-> [name |-> r.name, body |-> r.body]]

\* minipackDecode, lines 57-73: one pass of the loop at cursor c.
decodeRecord(a, c) ==
    LET r == readRecord(a, c)
    IN  IF r.thrown # "none" THEN [thrown |-> "RangeError"] ELSE verifyRecord(r)

\* minipackDecode run to its end: what it throws, or the list it returns.
RECURSIVE decodeFrom(_, _, _)
decodeFrom(a, c, fs) ==
    IF ~(c < a.byteLength) THEN [thrown |-> "none", value |-> fs]
    ELSE LET r == decodeRecord(a, c)
         IN  IF r.thrown # "none" THEN [thrown |-> r.thrown, value |-> <<>>]
             ELSE decodeFrom(a, r.i, Append(fs, r.file))

minipackDecode(a) == decodeFrom(a, 0, <<>>)

-----------------------------------------------------------------------------
(* The inputs *)

\* "", "aé" (61 C3 A9), "﻿b" (EF BB BF 62)
Names == {<<>>, <<97, 233>>, <<65279, 98>>}
Bodies == {<<>>, <<1, 0>>}
Entries == [name : Names, body : Bodies]

\* Names longer than the 255 bytes name_len can hold: 64 times U+1F600 (the
\* surrogate pair D83D DE00, F0 9F 98 80 in UTF-8), 256 bytes, and 86 times
\* U+3042 (E3 81 82), 258 bytes.
LongNames == {[j \in 1..128 |-> IF j % 2 = 1 THEN 55357 ELSE 56832],
              [j \in 1..86 |-> 12354]}

FileLists ==
    UNION {[1..m -> Entries] : m \in 0..MaxFiles}
        \cup {<<[name |-> ln, body |-> b]>> : ln \in LongNames, b \in {<<>>, <<7>>}}

\* the values a byte of the archive is changed to
TamperValues == {1, 255}

\* the bytes in front of the archive in the buffer of a view
Paddings == {<<0>>, <<0, 3>>}

\* every name fits the 1-byte name_len field (every body of the model fits
\* the 4-byte body_len field)
Precondition(fs) == \A j \in 1..Len(fs) : Len(utfEncode(fs[j].name)) <= 255

NoInput == Standalone(<<>>)
NoMode == [kind |-> "none", at |-> 0]

InitPar == call = <<>> /\ frame = <<>>
InitTask == workers = <<>> /\ promises = <<>>

Init ==
    /\ pc = "call"
    /\ files \in FileLists
    /\ archive = <<>>
    /\ i = 0
    /\ n = 0
    /\ mode = NoMode
    /\ input = NoInput
    /\ di = 0
    /\ out = <<>>
    /\ hdrs = <<>>
    /\ iters = 0
    /\ err = "none"
    /\ InitPar
    /\ InitTask

decodeVars == <<mode, input, di, out, hdrs, iters, err>>
encodeVars == <<files, archive, i, n>>

\* minipackEncode, lines 20-22
EncodeBegin ==
    /\ pc = "call"
    /\ archive' = Zeros(archiveSize(files))
    /\ i' = 0
    /\ n' = 0
    /\ pc' = "encode"
    /\ UNCHANGED <<files, decodeVars, parVars, taskVars>>

\* minipackEncode, lines 24-42: one entry
EncodeEntry ==
    /\ pc = "encode"
    /\ n < Len(files)
    /\ \E r \in {encodeEntry(archive, i, files[n + 1])} :
           /\ archive' = r.archive
           /\ i' = r.i
           /\ n' = n + 1
           /\ pc' = IF r.thrown = "none" THEN "encode" ELSE "encodeThrown"
    /\ UNCHANGED <<files, decodeVars, parVars, taskVars>>

\* minipackEncode, line 44
EncodeReturn ==
    /\ pc = "encode"
    /\ n = Len(files)
    /\ pc' = "encoded"
    /\ UNCHANGED <<encodeVars, decodeVars, parVars, taskVars>>

\* The caller hands a Uint8Array to minipackDecode (line 53-54).
DecodeBegin(a, m) ==
    /\ pc = "encoded"
    /\ input' = a
    /\ mode' = m
    /\ di' = 0
    /\ out' = <<>>
    /\ hdrs' = <<>>
    /\ iters' = 0
    /\ err' = "none"
    /\ pc' = "decode"
    /\ UNCHANGED <<encodeVars, parVars, taskVars>>

\* ... the archive as encode returned it
DecodeArchive ==
    /\ pc = "encoded"
    /\ DecodeBegin(Standalone(archive), [kind |-> "whole", at |-> 0])

\* ... a copy of its first k bytes
DecodeTruncated ==
    /\ pc = "encoded"
    /\ Precondition(files)
    /\ \E k \in 0..(Len(archive) - 1) :
        DecodeBegin(Standalone(SubSeq(archive, 1, k)), [kind |-> "truncated", at |-> k])

\* ... a copy with the byte at offset p changed to v
DecodeTampered ==
    /\ pc = "encoded"
    /\ Precondition(files)
    /\ \E p \in 0..(Len(archive) - 1) : \E v \in TamperValues \ {archive[p + 1]} :
        DecodeBegin(Standalone([archive EXCEPT ![p + 1] = v]),
                    [kind |-> "tampered", at |-> p])

\* ... the same bytes seen through a view at a byteOffset into a larger buffer
DecodeView ==
    /\ pc = "encoded"
    /\ \E pad \in Paddings :
        DecodeBegin([buffer |-> pad \o archive, byteOffset |-> Len(pad),
                     byteLength |-> Len(archive)],
                    [kind |-> "view", at |-> Len(pad)])

\* minipackDecode, lines 56-74: one pass of the loop
DecodeRecord ==
    /\ pc = "decode"
    /\ di < input.byteLength
    /\ iters' = iters + 1
    /\ \E r \in {decodeRecord(input, di)} :
           IF r.thrown # "none"
           THEN /\ err' = r.thrown
                /\ pc' = "thrown"
                /\ UNCHANGED <<di, out, hdrs>>
           ELSE /\ di' = r.i
                /\ out' = Append(out, r.file)
                /\ hdrs' = Append(hdrs, [ns |-> r.ns, bs |-> r.bs])
                /\ UNCHANGED <<err, pc>>
    /\ UNCHANGED <<mode, input, encodeVars, parVars, taskVars>>

\* minipackDecode, lines 56 and 76: the loop condition fails, return files
DecodeReturn ==
    /\ pc = "decode"
    /\ ~(di < input.byteLength)
    /\ pc' = "returned"
    /\ UNCHANGED <<encodeVars, decodeVars, parVars, taskVars>>

Next ==
    \/ EncodeBegin
    \/ EncodeEntry
    \/ EncodeReturn
    \/ DecodeArchive
    \/ DecodeTruncated
    \/ DecodeTampered
    \/ DecodeView
    \/ DecodeRecord
    \/ DecodeReturn

Spec == Init /\ [][Next]_vars

-----------------------------------------------------------------------------
(* Concurrent invocations.  An async function runs without interruption    *)
(* from one await to the next; the only await of minipackEncode and of     *)
(* minipackDecode is the one on cryptoHash (lines 28 and 69).  Each step    *)
(* below is one such uninterrupted stretch of one invocation.              *)

Calls == 1..NumCalls

\* The activation that holds the locals of invocation p: archive and i of
\* minipackEncode (lines 20, 22), files and i of minipackDecode (lines 54,
\* 56) are declared inside the function, one set per invocation.
frameOfShared(p) == 1

frameOf(p) == p

ParEntries == <<[name |-> <<97, 233>>, body |-> <<1, 0>>],
                [name |-> <<>>, body |-> <<>>]>>

ParFileLists == {<<>>, <<ParEntries[1]>>, <<ParEntries[1], ParEntries[2]>>,
                 <<ParEntries[2], ParEntries[1]>>}

\* archives, one cut short, one with a body byte changed
ParArchives ==
    {Standalone(minipackEncode(fs).value) : fs \in ParFileLists}
        \cup {Standalone(SubSeq(minipackEncode(<<ParEntries[1]>>).value, 1, 36)),
              Standalone([minipackEncode(<<ParEntries[1]>>).value EXCEPT ![42] = 9])}

NotCalled ==
    [kind |-> "none", arg |-> <<>>, pc |-> "idle", n |-> 0, pending |-> <<>>,
     overlapped |-> FALSE, thrown |-> "none", value |-> <<>>]

NoFrame == [archive |-> <<>>, files |-> <<>>, i |-> 0]

InitCodecIdle ==
    /\ pc = "call"
    /\ files = <<>>
    /\ archive = <<>>
    /\ i = 0
    /\ n = 0
    /\ mode = NoMode
    /\ input = NoInput
    /\ di = 0
    /\ out = <<>>
    /\ hdrs = <<>>
    /\ iters = 0
    /\ err = "none"

ParInit ==
    /\ InitCodecIdle
    /\ InitTask
    /\ call = [p \in Calls |-> NotCalled]
    /\ frame = [p \in Calls |-> NoFrame]

\* some other invocation is suspended at its await
OthersAwaiting(p) == \E q \in Calls \ {p} : call[q].pc = "await"

\* minipackEncode, the loop head of line 24 with the locals fr, for an
\* invocation c that has done c.n entries: return when the entries are
\* exhausted, else await the digest of the next.
encodeContinue(c, fr, done) ==
    IF done >= Len(c.arg)
    THEN [c EXCEPT !.pc = "returned", !.n = done, !.value = fr.archive]
    ELSE [c EXCEPT !.pc = "await", !.n = done]

\* minipackDecode, the loop head of line 56 and lines 57-67 with the locals
\* fr: return when the cursor is at or past the end, else read the record
\* (which may throw) and await the digest of its body.
decodeContinue(a, c, fr) ==
    IF ~(fr.i < a.byteLength)
    THEN [call |-> [c EXCEPT !.pc = "returned", !.value = fr.files], frame |-> fr]
    ELSE LET r == readRecord(a, fr.i)
         IN  IF r.thrown # "none"
             THEN [call |-> [c EXCEPT !.pc = "thrown", !.thrown = r.thrown],
                   frame |-> fr]
             ELSE [call |-> [c EXCEPT !.pc = "await", !.pending = r],
                   frame |-> [fr EXCEPT !.i = r.i]]

\* minipackEncode is called: lines 20-28, up to the first await.
ParEncodeCall(p) ==
    /\ call[p].pc = "idle"
    /\ \E fs \in ParFileLists :
        LET fr == [archive |-> Zeros(archiveSize(fs)), files |-> <<>>, i |-> 0]
            c == [call[p] EXCEPT !.kind = "encode", !.arg = fs]
        IN  /\ frame' = [frame EXCEPT ![frameOf(p)] = fr]
            /\ call' = [call EXCEPT ![p] = encodeContinue(c, fr, 0)]
    /\ UNCHANGED <<codecVars, taskVars>>

\* minipackEncode resumes with the digest: lines 28-41 for the entry, then
\* the loop head.
ParEncodeResume(p) ==
    /\ call[p].pc = "await"
    /\ call[p].kind = "encode"
    /\ \E r \in {encodeEntry(frame[frameOf(p)].archive, frame[frameOf(p)].i,
                             call[p].arg[call[p].n + 1])} :
        \E c \in {[call[p] EXCEPT !.overlapped = @ \/ OthersAwaiting(p)]} :
            IF r.thrown # "none"
            THEN /\ call' = [call EXCEPT ![p] =
                                [c EXCEPT !.pc = "thrown", !.thrown = r.thrown]]
                 /\ UNCHANGED frame
            ELSE \E fr \in {[frame[frameOf(p)] EXCEPT !.archive = r.archive,
                                                     !.i = r.i]} :
                    /\ frame' = [frame EXCEPT ![frameOf(p)] = fr]
                    /\ call' = [call EXCEPT ![p] = encodeContinue(c, fr, c.n + 1)]
    /\ UNCHANGED <<codecVars, taskVars>>

\* minipackDecode is called: lines 54-69, up to the first await.
ParDecodeCall(p) ==
    /\ call[p].pc = "idle"
    /\ \E a \in ParArchives :
        \E d \in {decodeContinue(a, [call[p] EXCEPT !.kind = "decode", !.arg = a],
                                 NoFrame)} :
            /\ frame' = [frame EXCEPT ![frameOf(p)] = d.frame]
            /\ call' = [call EXCEPT ![p] = d.call]
    /\ UNCHANGED <<codecVars, taskVars>>

\* minipackDecode resumes with the digest: lines 69-73, then the loop head
\* and the next record up to its await.
ParDecodeResume(p) ==
    /\ call[p].pc = "await"
    /\ call[p].kind = "decode"
    /\ \E v \in {verifyRecord(call[p].pending)} :
        \E c \in {[call[p] EXCEPT !.overlapped = @ \/ OthersAwaiting(p)]} :
            IF v.thrown # "none"
            THEN /\ call' = [call EXCEPT ![p] =
                                [c EXCEPT !.pc = "thrown", !.thrown = v.thrown]]
                 /\ UNCHANGED frame
            ELSE \E d \in {decodeContinue(c.arg, c,
                              [frame[frameOf(p)] EXCEPT !.files = Append(@, v.file)])} :
                    /\ frame' = [frame EXCEPT ![frameOf(p)] = d.frame]
                    /\ call' = [call EXCEPT ![p] = d.call]
    /\ UNCHANGED <<codecVars, taskVars>>

ParNext ==
    \E p \in Calls :
        \/ ParEncodeCall(p)
        \/ ParEncodeResume(p)
        \/ ParDecodeCall(p)
        \/ ParDecodeResume(p)

SpecPar == ParInit /\ [][ParNext]_vars

\* what an invocation gives when it runs alone
Alone(c) ==
    IF c.kind = "encode" THEN minipackEncode(c.arg) ELSE minipackDecode(c.arg)

-----------------------------------------------------------------------------
(* src/src/deflate.ts, createTask: the TaskContext of lines 70-95 *)

Messages == {1, 2}

TaskInit ==
    /\ InitCodecIdle
    /\ InitPar
    /\ workers = <<>>
    /\ promises = <<>>

\* lines 70-94: a call of the TaskContext.  The executor creates a Worker,
\* sets its handlers and posts the message.  postMessage throws
\* (DataCloneError) when the message cannot be cloned or the transfer list
\* is not valid; an executor that throws rejects the promise.
TaskCall ==
    /\ Len(promises) < MaxTasks
    /\ \E message \in Messages, cloneable \in BOOLEAN :
        /\ workers' = Append(workers, [state |-> "running", posted |-> cloneable])
        /\ promises' = Append(promises,
              [worker |-> Len(workers) + 1,
               message |-> message,
               state |-> IF cloneable THEN "pending" ELSE "rejected",
               value |-> IF cloneable THEN 0 ELSE -1])
    /\ UNCHANGED <<codecVars, parVars>>

\* res / rej of a promise: the first one settles it, the later do nothing
settle(pr, state, value) ==
    IF pr.state = "pending" THEN [pr EXCEPT !.state = state, !.value = value]
    ELSE pr

\* lines 76-79: the worker posted its result
TaskOnMessage ==
    \E c \in 1..Len(promises) : \E data \in Messages :
        /\ workers[promises[c].worker].state = "running"
        /\ workers[promises[c].worker].posted
        /\ promises' = [promises EXCEPT ![c] = settle(@, "resolved", data)]
        /\ workers' = [workers EXCEPT ![promises[c].worker].state = "terminated"]
        /\ UNCHANGED <<codecVars, parVars>>

\* lines 81-84: an error event of the worker
TaskOnError ==
    \E c \in 1..Len(promises) :
        /\ workers[promises[c].worker].state = "running"
        /\ promises' = [promises EXCEPT ![c] = settle(@, "rejected", -2)]
        /\ workers' = [workers EXCEPT ![promises[c].worker].state = "terminated"]
        /\ UNCHANGED <<codecVars, parVars>>

\* lines 86-89: the result of the worker could not be deserialized
TaskOnMessageError ==
    \E c \in 1..Len(promises) :
        /\ workers[promises[c].worker].state = "running"
        /\ workers[promises[c].worker].posted
        /\ promises' = [promises EXCEPT ![c] = settle(@, "rejected", -3)]
        /\ workers' = [workers EXCEPT ![promises[c].worker].state = "terminated"]
        /\ UNCHANGED <<codecVars, parVars>>

TaskNext ==
    \/ TaskCall
    \/ TaskOnMessage
    \/ TaskOnError
    \/ TaskOnMessageError

SpecTask == TaskInit /\ [][TaskNext]_vars

-----------------------------------------------------------------------------
(* The record layout of the format, stated apart from the code *)

BigEndian32(v) ==
    <<(v \div 16777216) % 256, (v \div 65536) % 256, (v \div 256) % 256, v % 256>>

Record(f) ==
    cryptoHash(FALSE, f.body) \o <<Len(utfEncode(f.name))>>
        \o BigEndian32(Len(f.body)) \o utfEncode(f.name) \o f.body

Layout(fs) == Concat([j \in 1..Len(fs) |-> Record(fs[j])], 1, Len(fs))

RecordSize(f) == 32 + 1 + 4 + Len(utfEncode(f.name)) + Len(f.body)

\* offset of record j in the archive of fs (j = Len(fs) + 1: its length)
RECURSIVE RecordStart(_, _)
RecordStart(fs, j) ==
    IF j <= 1 THEN 0 ELSE RecordStart(fs, j - 1) + RecordSize(fs[j - 1])

RecordEnds(fs) == {RecordStart(fs, j) : j \in 1..(Len(fs) + 1)}

InDigest(fs, j, p) ==
    p >= RecordStart(fs, j) /\ p < RecordStart(fs, j) + 32

InBody(fs, j, p) ==
    p >= RecordStart(fs, j + 1) - Len(fs[j].body) /\ p < RecordStart(fs, j + 1)

RECURSIVE SumDeclared(_)
SumDeclared(hs) ==
    IF hs = <<>> THEN 0
    ELSE 32 + 1 + 4 + Head(hs).ns + Head(hs).bs + SumDeclared(Tail(hs))

Finished == pc \in {"returned", "thrown"}

\* what the decode of the scenario has returned or thrown
Outcome == [thrown |-> err, value |-> IF err = "none" THEN out ELSE <<>>]

-----------------------------------------------------------------------------
(* The claims *)

\* C1: round trip.  Decoding the archive minipackEncode returned for entries
\* whose names fit name_len returns the same entries, names and bodies, in
\* the same order.
C1_RoundTrip ==
    (Finished /\ mode.kind = "whole" /\ Precondition(files))
        => (pc = "returned" /\ out = files)

\* C2: truncation.  Decoding a proper prefix of an encoded archive that ends
\* strictly inside a record never returns a list of entries.
C2_TruncationFails ==
    (mode.kind = "truncated" /\ Precondition(files)
        /\ mode.at \notin RecordEnds(files))
        => pc # "returned"

\* C3: tamper detection.  With one byte of a digest field or of a body field
\* of an encoded archive changed, decode never returns: it throws the
\* integrity Error at the changed record, after pushing the records before.
C3_TamperDetected ==
    \A j \in 1..Len(files) :
        (mode.kind = "tampered" /\ Precondition(files)
            /\ (InDigest(files, j, mode.at) \/ InBody(files, j, mode.at)))
            => /\ pc # "returned"
               /\ Len(out) < j
               /\ pc = "thrown" => (err = "Error" /\ Len(out) = j - 1)

C3_Witness ==
    /\ pc = "thrown"
    /\ mode.kind = "tampered"
    /\ Len(files) = 2
    /\ Precondition(files)
    /\ InBody(files, 2, mode.at)
    /\ Len(out) = 1

\* C4: exact consumption.  When decode returns, the length of its argument is
\* the sum over the parsed records of 32 + 1 + 4 + name_len + body_len (here
\* for the buffers made from archives of entries that meet the preconditions).
C4_ExactConsumption ==
    (pc = "returned" /\ Precondition(files))
        => input.byteLength = SumDeclared(hdrs)

\* C5: name-length precondition.  minipackEncode never returns a buffer in
\* which the name_len field of a record differs from the number of name
\* bytes written for that record.
C5_NameLenNeverTruncated ==
    pc = "encoded" =>
        \A j \in 1..Len(files) :
            archive[RecordStart(files, j) + 32 + 1] = Len(utfEncode(files[j].name))

\* C6: encode layout.  For entries that meet the preconditions the returned
\* buffer is the concatenation, in input order, of digest(body) ++ name_len
\* ++ body_len (4 bytes big-endian) ++ name bytes ++ body bytes; its length
\* is the sum of the record sizes, zero for no entries; encode does not throw.
C6_EncodeLayout ==
    (pc \in {"encoded", "encodeThrown"} /\ mode.kind = "none"
        /\ Precondition(files)) =>
        /\ pc = "encoded"
        /\ archive = Layout(files)
        /\ Len(archive) = RecordStart(files, Len(files) + 1)
        /\ files = <<>> => archive = <<>>

C6_Witness ==
    /\ pc = "encoded"
    /\ Len(files) = 2
    /\ Precondition(files)
    /\ files[1].body # <<>>
    /\ files[1].name # files[2].name
    /\ files[2].name # <<>>

\* C7: worker lifecycle.  Every call of the TaskContext has a Worker of its
\* own, and once the promise of a call has settled its Worker is terminated.
C7_WorkerTerminatedOnSettle ==
    /\ \A c, d \in 1..Len(promises) :
            c # d => promises[c].worker # promises[d].worker
    /\ \A c \in 1..Len(promises) :
            promises[c].state # "pending"
                => workers[promises[c].worker].state = "terminated"

\* C8: decode termination.  Every pass of the loop that does not throw moves
\* the cursor forward by at least 37 bytes, also for a record with an empty
\* name and an empty body, so at most ceil(byteLength / 37) passes start.
C8_DecodeProgress ==
    /\ [](pc \in {"decode", "returned", "thrown"} =>
            /\ di >= 37 * Len(out)
            /\ Len(out) <= iters
            /\ iters >= 1 => 37 * (iters - 1) < input.byteLength)
    /\ [][(pc = "decode" /\ pc' = "decode") =>
            (iters' = iters + 1 /\ di' >= di + 37)]_vars

C8_Witness ==
    /\ pc = "returned"
    /\ iters >= 2
    /\ \E j \in 1..Len(hdrs) : hdrs[j].ns = 0 /\ hdrs[j].bs = 0

\* C9: independence of concurrent calls.  Whatever the interleaving at the
\* awaits, an invocation returns or throws what it does when run alone, and
\* a step of one invocation changes the locals of no other.
C9_CallsIndependent ==
    /\ [](\A p \in Calls :
            call[p].pc \in {"returned", "thrown"} =>
                [thrown |-> call[p].thrown, value |-> call[p].value]
                    = Alone(call[p]))
    /\ [][\A q \in Calls : frame'[q] # frame[q] => call'[q] # call[q]]_vars

C9_Witness ==
    \E p, q \in Calls :
        /\ p # q
        /\ call[p].kind = "encode" /\ call[p].pc = "returned"
        /\ call[q].kind = "decode" /\ call[q].pc = "returned"
        /\ call[p].overlapped /\ call[q].overlapped
        /\ Len(call[p].arg) = 2 /\ Len(call[q].value) = 2

\* C10: view independence.  Decoding a Uint8Array that is a view at a
\* non-zero byteOffset gives what decoding a copy of the same bytes gives.
C10_ViewIndependent ==
    (Finished /\ mode.kind = "view")
        => Outcome = minipackDecode(Standalone(Bytes(input)))

====
